---- MODULE Spec2Model ----
(***************************************************************************)
(* The Diamond v5 pipeline of payready-ai: the workflow runner             *)
(* (tekton/swarm.py), the nine stage functions (tekton/stages/*.py), the   *)
(* triad-plus-mediator debate engine (core/jury.py), the artifact schemas  *)
(* (core/schemas/artifacts.py), the agent factory (core/agent_factory.py), *)
(* the command-line entries (tekton/cli.py, cli/cli.py), the run-directory *)
(* helper (cli/agents/_io.py), the context manager                         *)
(* (services/context_manager.py) and the Claude adapter                    *)
(* (cli/agents/claude.py).                                                 *)
(***************************************************************************)
EXTENDS Integers, Sequences, FiniteSets, TLC

(***************************************************************************)
(* JSON values.  Every value is a record of the same four fields so that   *)
(* values of different kinds can be compared: k is the kind, n a number    *)
(* (a float in tenths, an int, a bool as 0/1, or a list's length), s a     *)
(* string and o the members of a dict (or the element of a list of dicts). *)
(***************************************************************************)
Null == [k |-> "null", n |-> 0, s |-> "", o |-> <<>>]

Str(s) == [k |-> "str", n |-> 0, s |-> s, o |-> <<>>]

Num(tenths) == [k |-> "num", n |-> tenths, s |-> "", o |-> <<>>]

JInt(i) == [k |-> "int", n |-> i, s |-> "", o |-> <<>>]

Bool(b) == [k |-> "bool", n |-> IF b THEN 1 ELSE 0, s |-> "", o |-> <<>>]

\* a list of len strings
List(len) == [k |-> "list", n |-> len, s |-> "", o |-> <<>>]

\* a list of len dicts, each with the members elem
Objs(len, elem) == [k |-> "objs", n |-> len, s |-> "", o |-> elem]

Dict(members) == [k |-> "dict", n |-> 0, s |-> "", o |-> members]

EmptyDict == Dict(<<>>)

\* dict.get(key, default)
Get(v, key, default) == IF key \in DOMAIN v.o THEN v.o[key] ELSE default

(***************************************************************************)
(* core/schemas/artifacts.py: a schema is a map from field name to the     *)
(* field's type, its minimum length, whether it is required and its        *)
(* default.  The rules are those of pydantic v1 (conlist(min_items=...),   *)
(* parse_obj).                                                             *)
(***************************************************************************)
Field(type, min, required, default) ==
    [type |-> type, min |-> min, required |-> required, default |-> default]

Req(type) == Field(type, 0, TRUE, Null)

\* Confidence = confloat(ge=0.0, le=1.0), in tenths
ConfidenceMin == 0

ConfidenceMax == 10

ResearchOption ==
    [name |-> Req("str"), pros |-> Req("liststr"), cons |-> Req("liststr"),
     links |-> Req("liststr")]

BacklogItem ==
    [item_id |-> Req("str"), task |-> Req("str"), rationale |-> Req("str"),
     dependencies |-> Field("liststr", 0, FALSE, List(0)),
     owner |-> Field("optstr", 0, FALSE, Null)]

PlanArtifact ==
    [goals |-> Field("liststr", 1, TRUE, Null),
     milestones |-> Req("liststr"),
     acceptance_criteria |-> Req("liststr"),
     risks |-> Req("liststr"),
     slos |-> Field("liststr", 0, FALSE, List(0)),
     dri |-> Req("str"),
     timeline |-> Req("str"),
     confidence |-> Req("conf")]

ResearchArtifact ==
    [options |-> Field("options", 1, TRUE, Null),
     decision_matrix |-> Req("listdict"),
     chosen |-> Req("str"),
     citations |-> Req("liststr"),
     freshness_window_days |-> Field("int", 0, FALSE, JInt(120)),
     confidence |-> Req("conf")]

BacklogArtifact ==
    [items |-> Field("items", 1, TRUE, Null),
     plan_version |-> Req("str"),
     confidence |-> Req("conf")]

ThreatArtifact ==
    [dfd |-> Req("str"), risks |-> Req("liststr"), mitigations |-> Req("liststr"),
     controls |-> Req("liststr"), rollback_plan |-> Req("str"),
     compliance |-> Req("dict"), confidence |-> Req("conf")]

IntegrationArtifact ==
    [flags |-> Req("liststr"), migrations |-> Req("liststr"),
     config_map |-> Req("dict"), rollback |-> Req("str"),
     confidence |-> Req("conf")]

TestReport ==
    [ship |-> Req("bool"),
     junit_path |-> Field("optstr", 0, FALSE, Null),
     coverage |-> Req("dict"),
     flakes |-> Req("liststr"),
     confidence |-> Req("conf"),
     generated_at |-> Field("datetime", 0, FALSE, Str("utcnow"))]

ReleaseReport ==
    [environment |-> Req("str"), version |-> Req("str"),
     canary_metrics |-> Req("dict"), health |-> Req("liststr"),
     rollback_cmds |-> Req("liststr"), links |-> Req("liststr"),
     confidence |-> Req("conf")]

NoSchema == "None"

\* the class a schema name stands for
SchemaFields(schema) ==
    CASE schema = "PlanArtifact" -> PlanArtifact
      [] schema = "ResearchArtifact" -> ResearchArtifact
      [] schema = "BacklogArtifact" -> BacklogArtifact
      [] schema = "ThreatArtifact" -> ThreatArtifact
      [] schema = "IntegrationArtifact" -> IntegrationArtifact
      [] schema = "TestReport" -> TestReport
      [] schema = "ReleaseReport" -> ReleaseReport

\* a float in tenths, whatever numeric kind carries it
Tenths(v) == IF v.k = "num" THEN v.n ELSE v.n * 10

\* mutant: the confidence is required to be a number, of any size
InConfidenceRangeUnbounded(t) == TRUE

\* confloat(ge=0.0, le=1.0)
InConfidenceRange(t) == t >= ConfidenceMin /\ t <= ConfidenceMax

\* pydantic v1 validators of the scalar and list field types
AcceptsScalar(f, v) ==
    CASE f.type = "str" -> v.k \in {"str", "num", "int", "bool"}
      [] f.type = "optstr" -> v.k \in {"str", "num", "int", "bool", "null"}
      [] f.type = "liststr" -> v.k = "list" /\ v.n >= f.min
      [] f.type = "listdict" -> v.k = "objs" \/ (v.k = "list" /\ v.n = 0)
      [] f.type = "dict" -> v.k = "dict" \/ (v.k = "list" /\ v.n = 0)
      [] f.type = "bool" ->
            v.k = "bool" \/ (v.k \in {"num", "int"} /\ Tenths(v) \in {0, 10})
      [] f.type = "int" -> v.k \in {"int", "num", "bool"}
      [] f.type = "datetime" ->
            v.k \in {"int", "num"} \/ (v.k = "str" /\ v.s = "utcnow")
      [] f.type = "conf" ->
            /\ v.k \in {"num", "int", "bool"}
            /\ InConfidenceRange(Tenths(v))
      [] OTHER -> FALSE

\* the value a field holds after validation (pydantic v1 coerces)
CoerceScalar(f, v) ==
    CASE f.type \in {"str", "optstr"} /\ v.k \in {"num", "int", "bool"} -> Str("coerced")
      [] f.type = "dict" /\ v.k = "list" -> EmptyDict
      [] f.type = "bool" -> Bool(Tenths(v) = 10)
      [] f.type = "int" /\ v.k = "num" -> JInt(v.n \div 10)
      [] f.type = "int" /\ v.k = "bool" -> JInt(v.n)
      [] f.type = "conf" -> Num(Tenths(v))
      [] OTHER -> v

\* validation of a dict against a class whose fields are scalars and lists
ConformsFlat(fields, v) ==
    /\ v.k = "dict"
    /\ \A name \in DOMAIN fields :
          IF name \in DOMAIN v.o
          THEN AcceptsScalar(fields[name], v.o[name])
          ELSE ~fields[name].required

ModelFlat(fields, v) ==
    [name \in DOMAIN fields |->
        IF name \in DOMAIN v.o
        THEN CoerceScalar(fields[name], v.o[name])
        ELSE fields[name].default]

SubSchema(type) == IF type = "options" THEN ResearchOption ELSE BacklogItem

Accepts(f, v) ==
    IF f.type \in {"options", "items"}
    THEN /\ v.k = "objs"
         /\ v.n >= f.min
         /\ ConformsFlat(SubSchema(f.type), Dict(v.o))
    ELSE AcceptsScalar(f, v)

Coerce(f, v) ==
    IF f.type \in {"options", "items"}
    THEN Objs(v.n, ModelFlat(SubSchema(f.type), Dict(v.o)))
    ELSE CoerceScalar(f, v)

\* schema.parse_obj(obj) succeeds
Conforms(schema, obj) ==
    LET fields == SchemaFields(schema) IN
    /\ obj.k = "dict"
    /\ \A name \in DOMAIN fields :
          IF name \in DOMAIN obj.o
          THEN Accepts(fields[name], obj.o[name])
          ELSE ~fields[name].required

\* mutant: a field that is absent stays unset
ParseObjWithoutDefaults(schema, obj) ==
    LET fields == SchemaFields(schema) IN
    [name \in DOMAIN fields |->
        IF name \in DOMAIN obj.o
        THEN Coerce(fields[name], obj.o[name])
        ELSE Null]

\* the model schema.parse_obj(obj) returns: the declared fields only
ParseObj(schema, obj) ==
    LET fields == SchemaFields(schema) IN
    [name \in DOMAIN fields |->
        IF name \in DOMAIN obj.o
        THEN Coerce(fields[name], obj.o[name])
        ELSE fields[name].default]

(***************************************************************************)
(* core/jury.py: the debate engine.                                        *)
(***************************************************************************)
\* the text an agent returns: JSON text of a value, or text that is no JSON
Json(v) == [json |-> TRUE, v |-> v]

NotJson == [json |-> FALSE, v |-> Str("not json")]

\* a mediator that returns an object that is no str (json.loads: TypeError)
NotText == [json |-> FALSE, v |-> Null]

\* default of the rounds parameter
DefaultRounds == 2

\* mutant: the Skeptic and the Pragmatist swapped
TriadLabelsSwapped == <<"Proponent", "Pragmatist", "Skeptic">>

TriadLabels == <<"Proponent", "Skeptic", "Pragmatist">>

\* _run: a message that is no str is dumped (dict) or str()-ed
ToMessage(out) ==
    CASE out.k = "str" -> out.s
      [] out.k = "dict" -> "json.dumps(message)"
      [] OTHER -> "str(message)"

\* _as_messages: one "[label] content" line per entry, in order
AsMessages(data) ==
    [j \in 1..Len(data) |-> [agent |-> data[j][1], content |-> data[j][2]]]

\* no agent has been called
NoContext == [kind |-> "none", stage |-> "", messages |-> <<>>, at |-> 0]

NoCalls ==
    [r \in {"Proponent", "Skeptic", "Pragmatist", "Mediator"} |-> 0]

\* mutant: each role of the opening round also sees the earlier outputs
OpeningInputChained(stage, transcript) ==
    [kind |-> "opening", stage |-> stage, messages |-> AsMessages(transcript),
     at |-> Len(transcript)]

\* lines 58-63: the input of an opening call, rubric(stage) and the prompt;
\* at is the length of the transcript when the call is made
OpeningInput(stage, transcript) ==
    [kind |-> "opening", stage |-> stage, messages |-> <<>>,
     at |-> Len(transcript)]

\* lines 66-69: the input of a call of a debate round, the round's summary
DebateInput(summary, transcript) ==
    [kind |-> "summary", stage |-> "", messages |-> summary,
     at |-> Len(transcript)]

\* mutant: the mediator is shown the opening positions only
MediatorPromptOpeningOnly(transcript) ==
    [kind |-> "mediator", stage |-> "",
     messages |-> AsMessages(SubSeq(transcript, 1, 3)), at |-> Len(transcript)]

\* lines 71-77: the mediator prompt, which ends with the whole transcript
MediatorPrompt(transcript) ==
    [kind |-> "mediator", stage |-> "", messages |-> AsMessages(transcript),
     at |-> Len(transcript)]

\* mutant: the label compared as given, without lower()
LowerOmitted(stage) == stage

\* str.lower() on the stage labels in use
Lower(stage) ==
    CASE stage = "Plan" -> "plan"
      [] stage = "Research" -> "research"
      [] stage = "Plan Update" -> "plan update"
      [] stage = "Code" -> "code"
      [] stage = "Review" -> "review"
      [] stage = "Threat" -> "threat"
      [] stage = "Integrate" -> "integrate"
      [] stage = "Test Debug" -> "test debug"
      [] stage = "Release" -> "release"
      [] stage = "TEST_DEBUG" -> "test_debug"
      [] OTHER -> stage

\* os.getenv(...) == "1" for either variable
DegradedMode(e) == e.PAYREADY_OFFLINE_MODE = "1" \/ e.PAYREADY_TEST_MODE = "1"

\* the confidence of the synthesized payload and artifacts, in tenths
StubConfidence == 8

\* the stage-appropriate artifact of the offline/stub branch
StubArtifact(stage) ==
    CASE Lower(stage) = "plan" ->
            Dict([goals |-> List(1), milestones |-> List(1),
                  acceptance_criteria |-> List(1), risks |-> List(1),
                  slos |-> List(0), dri |-> Str("stub-owner"),
                  timeline |-> Str("immediate"),
                  confidence |-> Num(StubConfidence)])
      [] Lower(stage) = "research" ->
            Dict([options |->
                      Objs(1, [name |-> Str("Stub Option"), pros |-> List(1),
                               cons |-> List(1), links |-> List(1)]),
                  decision_matrix |->
                      Objs(1, [criteria |-> Str("offline"), score |-> JInt(10)]),
                  chosen |-> Str("Stub Option"), citations |-> List(1),
                  freshness_window_days |-> JInt(120),
                  confidence |-> Num(StubConfidence)])
      [] OTHER ->
            Dict([name |-> Str(stage), description |-> Str(stage),
                  status |-> Str("success")])

StubPayload(stage) ==
    Dict([artifact |-> StubArtifact(stage), status |-> Str("success"),
          rationale |-> Str("Running in offline/test mode with stub responses"),
          dissent |-> Str(""), risks |-> List(0), checklist |-> List(0),
          confidence |-> Num(StubConfidence),
          votes |-> Dict([A |-> JInt(1), B |-> JInt(1), C |-> JInt(1)]),
          loops_run |-> JInt(1)])

\* an exception: its type, what caused it, and the stage and the schema its
\* message names ("" when it names none)
Error(type, cause, stage, schema) ==
    [type |-> type, cause |-> cause, stage |-> stage, schema |-> schema]

NoError == Error("", "", "", "")

\* a validated artifact model of class schema
Model(schema, fields) == [k |-> "model", n |-> 0, s |-> schema, o |-> fields]

NoResult == [mediator |-> Null, artifact |-> Null, transcript |-> <<>>, artifact_path |-> ""]

Raised(e) == [raised |-> TRUE, err |-> e, result |-> NoResult]

Returned(r) == [raised |-> FALSE, err |-> NoError, result |-> r]

\* json.loads(response) fails, and no offline/test mode: the error raised
MalformedError(stage) == Error("ValueError", "malformed", stage, "")

\* schema.parse_obj fails: the error raised
ValidationError(stage, schema) == Error("ValueError", "schema", stage, schema)

\* mutant: offline/test mode swallows the validation failure
OnInvalidLenient(stage, schema, payload, transcript, e) ==
    IF DegradedMode(e)
    THEN Returned([mediator |-> payload, artifact |-> Null,
                   transcript |-> transcript, artifact_path |-> ""])
    ELSE Raised(ValidationError(stage, schema))

\* what happens to a payload that fails validation
OnInvalid(stage, schema, payload, transcript, e) ==
    Raised(ValidationError(stage, schema))

\* the value validated: payload.get("artifact", payload)
Validated(payload) == Get(payload, "artifact", payload)

\* lines 140-153: validate the payload and build the return value
Validate(stage, schema, payload, transcript, e) ==
    IF schema = NoSchema
    THEN Returned([mediator |-> payload, artifact |-> Null,
                   transcript |-> transcript, artifact_path |-> ""])
    ELSE IF payload.k = "dict" /\ Conforms(schema, Validated(payload))
         THEN Returned([mediator |-> payload,
                        artifact |-> Model(schema, ParseObj(schema, Validated(payload))),
                        transcript |-> transcript, artifact_path |-> ""])
         ELSE OnInvalid(stage, schema, payload, transcript, e)

\* lines 85-153: parse the mediator's response, recover or raise, validate
Conclude(stage, schema, resp, transcript, e) ==
    IF resp.json
    THEN Validate(stage, schema, resp.v, transcript, e)
    ELSE IF DegradedMode(e)
         THEN Validate(stage, schema, StubPayload(stage), transcript, e)
         ELSE Raised(MalformedError(stage))

(***************************************************************************)
(* tekton/swarm.py and tekton/stages/*.py: the workflow and its stages.    *)
(***************************************************************************)
STAGES ==
    <<"plan", "research", "plan_update", "code", "review", "threat",
      "integrate", "test_debug", "release">>

StageNames == {STAGES[j] : j \in 1..Len(STAGES)}

\* position of a known stage in the fixed order
Idx(name) == CHOOSE j \in 1..Len(STAGES) : STAGES[j] = name

\* start not in STAGES / end not in STAGES
KnownStage(name) == name \in StageNames

\* mutant: one file name for every stage
ArtifactFilenameShared(name) == "artifact.json"

\* ARTIFACT_FILENAMES.get(name, f"{name}.json")
ArtifactFilename(name) ==
    CASE name = "plan" -> "plan.json"
      [] name = "research" -> "research.json"
      [] name = "plan_update" -> "backlog.json"
      [] name = "threat" -> "threat.json"
      [] name = "integrate" -> "integration.json"
      [] name = "test_debug" -> "test_report.json"
      [] name = "release" -> "release_report.json"
      [] name = "code" -> "code.json"
      [] name = "review" -> "review.json"

\* the stage label each stage function passes to the debate engine
StageLabel(name) ==
    CASE name = "plan" -> "Plan"
      [] name = "research" -> "Research"
      [] name = "plan_update" -> "Plan Update"
      [] name = "code" -> "Code"
      [] name = "review" -> "Review"
      [] name = "threat" -> "Threat"
      [] name = "integrate" -> "Integrate"
      [] name = "test_debug" -> "Test Debug"
      [] name = "release" -> "Release"

\* the schema each stage function passes to the debate engine
StageSchema(name) ==
    CASE name = "plan" -> "PlanArtifact"
      [] name = "research" -> "ResearchArtifact"
      [] name = "plan_update" -> "BacklogArtifact"
      [] name = "threat" -> "ThreatArtifact"
      [] name = "integrate" -> "IntegrationArtifact"
      [] name = "test_debug" -> "TestReport"
      [] name = "release" -> "ReleaseReport"
      [] OTHER -> NoSchema

\* the earlier stages whose mediator payload a stage embeds in its prompt
StageDeps(name) ==
    CASE name = "research" -> <<"plan">>
      [] name = "plan_update" -> <<"plan", "research">>
      [] name = "code" -> <<"plan_update">>
      [] name = "review" -> <<"code">>
      [] name = "threat" -> <<"review">>
      [] name = "integrate" -> <<"threat">>
      [] name = "test_debug" -> <<"integrate">>
      [] name = "release" -> <<"test_debug">>
      [] OTHER -> <<>>

\* plan_update and release embed str(snapshot)[:n]; the others snapshot[:n]
SlicesViaStr(name) == name \in {"plan_update", "release"}

\* research builds its agents with base_agent, the others with the factory
UsesFactory(name) == name # "research"

\* x[:n] is defined for str and list values only
Sliceable(v) == v.k \in {"str", "list", "objs"}

\* context["results"].get(dep, {}).get("mediator", "")
Snapshot(res, dep) ==
    IF \E j \in 1..Len(res) : res[j].name = dep
    THEN (res[CHOOSE j \in 1..Len(res) : res[j].name = dep]).result.mediator
    ELSE Str("")

\* building the prompt raises: a snapshot that cannot be sliced (for a dict
\* TypeError "unhashable type: 'slice'", KeyError from Python 3.12 on)
PromptRaises(name, res) ==
    /\ ~SlicesViaStr(name)
    /\ \E j \in 1..Len(StageDeps(name)) : ~Sliceable(Snapshot(res, StageDeps(name)[j]))

\* AgentFactory.create_agent raises ValueError: no usable API key outside
\* offline/test mode
BuildRaises(name, e, keyOk) == UsesFactory(name) /\ ~DegradedMode(e) /\ ~keyOk

\* run() has not returned
NoReturn == [goal |-> "", results |-> <<>>]

\* line 104: the summary run() returns
Summary(goal, results) == [goal |-> goal, results |-> results]

\* the mediator payload of a result asks to stop: status block or revise
Blocked(res) ==
    /\ res.mediator.k = "dict"
    /\ Get(res.mediator, "status", Str("")) \in {Str("block"), Str("revise")}

\* mutant: the runner stops at a stage the mediator blocked
ProceedUnlessBlocked(name, end, j, res) ==
    IF name = end \/ Blocked(res)
    THEN [pc |-> "done", i |-> j]
    ELSE [pc |-> "loop", i |-> j + 1]

\* lines 101-102: after recording the result, whatever its verdict, the
\* loop breaks at end and otherwise goes on with the next stage
Proceed(name, end, j, res) ==
    IF name = end
    THEN [pc |-> "done", i |-> j]
    ELSE [pc |-> "loop", i |-> j + 1]

\* mutant: the new entry replaces the earlier ones
RecordAlone(results, name, stored) ==
    <<[name |-> name, result |-> stored]>>

\* line 101: results[name] = result
Record(results, name, stored) ==
    Append(results, [name |-> name, result |-> stored])

\* mutant: an empty object is written
SerializeEmpty(artifact) == Json(EmptyDict)

\* the roles _build_agents constructs, in its order
Roles == <<"proponent", "skeptic", "pragmatist", "mediator">>

\* cache_key = f"{name}_{role}_{model_id}": the agent's name and role are
\* fixed per stage and role, model_id is model_override or the role's default
CacheKey(name, role, override) ==
    <<name, role, IF override = "" THEN "default" ELSE override>>

\* the roles of a stage whose agent is not in the factory's cache
Uncached(name, override, cch) ==
    {r \in 1..Len(Roles) :
        ~(UsesFactory(name) /\ CacheKey(name, Roles[r], override) \in DOMAIN cch)}

\* _build_agents: the Agent object of each role, a cached one or a new one
\* (objects are numbered in the order of their construction)
BuildAgents(name, override, cch, ser) ==
    [r \in 1..Len(Roles) |->
        IF r \in Uncached(name, override, cch)
        THEN ser + r
        ELSE cch[CacheKey(name, Roles[r], override)]]

\* self._agents_cache[cache_key] = agent, for the agents the factory made
CacheAfter(name, override, cch, ser) ==
    IF UsesFactory(name)
    THEN LET new == {CacheKey(name, Roles[r], override) :
                        r \in Uncached(name, override, cch)}
         IN [key \in DOMAIN cch \cup new |->
                IF key \in DOMAIN cch
                THEN cch[key]
                ELSE ser + (CHOOSE r \in 1..Len(Roles) :
                               key = CacheKey(name, Roles[r], override))]
    ELSE cch

\* mutant: the names are compared as given
ConsensusFreeSetAsGiven(cf) == cf

\* consensus_free_set = {s.lower() for s in (consensus_free or [])}
ConsensusFreeSet(cf) == {Lower(s) : s \in cf}

\* stage_kwargs["consensus_free"]: present for code and test_debug only
ConsensusFreeKwarg(name, cf) ==
    IF name \in {"code", "test_debug"}
    THEN IF name \in ConsensusFreeSet(cf) THEN "True" ELSE "False"
    ELSE "absent"

\* artifact.json(indent=2): the JSON text of the model's fields
Serialize(artifact) == Json(Dict(artifact.o))

\* destination.write_text(content)
WriteText(fs, filename, content) ==
    [f \in DOMAIN fs \cup {filename} |-> IF f = filename THEN content ELSE fs[f]]

\* mutant: the loop catches the exception and goes on with the next stage
StageFailedContinues(j) == [pc |-> "loop", i |-> j + 1]

\* where the runner stands after the stage at position j raised: run() has
\* no handler, so the exception leaves the loop and reaches the caller
StageFailed(j) == [pc |-> "raised", i |-> j]

(***************************************************************************)
(* The collaborators: what agents and mediators may answer.                *)
(***************************************************************************)
\* bound of the rounds parameter in direct calls of the debate engine
MaxRounds == 2

\* a schema-valid artifact for each schema; free JSON where there is none
ValidArtifact(schema) ==
    CASE schema = "PlanArtifact" ->
            Dict([goals |-> List(1), milestones |-> List(0),
                  acceptance_criteria |-> List(0), risks |-> List(0),
                  dri |-> Str("a"), timeline |-> Str("t"), confidence |-> Num(8)])
      [] schema = "ResearchArtifact" ->
            Dict([options |->
                      Objs(1, [name |-> Str("n"), pros |-> List(1),
                               cons |-> List(0), links |-> List(1)]),
                  decision_matrix |-> List(0), chosen |-> Str("n"),
                  citations |-> List(1), confidence |-> Num(9)])
      [] schema = "BacklogArtifact" ->
            Dict([items |->
                      Objs(1, [item_id |-> Str("1"), task |-> Str("t"),
                               rationale |-> Str("r")]),
                  plan_version |-> Str("v1"), confidence |-> Num(9)])
      [] schema = "ThreatArtifact" ->
            Dict([dfd |-> Str("d"), risks |-> List(1), mitigations |-> List(1),
                  controls |-> List(0), rollback_plan |-> Str("r"),
                  compliance |-> EmptyDict, confidence |-> Num(7)])
      [] schema = "IntegrationArtifact" ->
            Dict([flags |-> List(0), migrations |-> List(0),
                  config_map |-> EmptyDict, rollback |-> Str("r"),
                  confidence |-> Num(10)])
      [] schema = "TestReport" ->
            Dict([ship |-> Bool(TRUE), coverage |-> EmptyDict, flakes |-> List(0),
                  confidence |-> Num(9)])
      [] schema = "ReleaseReport" ->
            Dict([environment |-> Str("prod"), version |-> Str("1"),
                  canary_metrics |-> EmptyDict, health |-> List(1),
                  rollback_cmds |-> List(1), links |-> List(0),
                  confidence |-> Num(0)])
      [] OTHER -> Dict([diff |-> Str("patch"), confidence |-> Num(9)])

\* the same artifact with a confidence of 1.5
OverConfident(a) == Dict([a.o EXCEPT !["confidence"] = Num(15)])

\* the same artifact with a negative confidence
UnderConfident(a) == Dict([a.o EXCEPT !["confidence"] = Num(-1)])

\* the same artifact without its confidence
WithoutConfidence(a) == Dict([f \in DOMAIN a.o \ {"confidence"} |-> a.o[f]])

\* a mediator payload with the keys the mediator prompt asks for
Payload(artifact, status, confidence) ==
    Dict([artifact |-> artifact, status |-> Str(status), rationale |-> Str("r"),
          dissent |-> Str(""), risks |-> List(0), checklist |-> List(0),
          confidence |-> Num(confidence), votes |-> EmptyDict,
          loops_run |-> JInt(1)])

\* the mediator's possible responses in a debate with the given schema
MediatorResponses(schema) ==
    LET a == ValidArtifact(schema) IN
    {NotJson, NotText, Json(List(0)), Json(Str("text")),
     Json(Payload(a, "success", 9)), Json(Payload(a, "block", 6)),
     Json(Payload(a, "success", 6)), Json(Payload(a, "revise", 9)), Json(a),
     Json(Dict([status |-> Str("success"), confidence |-> Num(9)])),
     Json(Payload(OverConfident(a), "success", 9)),
     Json(Payload(UnderConfident(a), "success", 9)),
     Json(Payload(WithoutConfidence(a), "success", 9)),
     Json(Payload(Null, "block", 6))}

\* what a triad agent may return: the pipeline's agents return text; a
\* direct caller of the engine may pass agents that return a dict
AgentOutputs(c) ==
    IF c = "runner"
    THEN {Str("position")}
    ELSE {Str("position"), Dict([position |-> Str("p")])}

\* bound of the calls of run() in one behaviour
MaxRuns == 2

\* the command-line entries that call run(): tekton/cli.py and cli/cli.py
Entries == {"tekton", "diamond"}

\* the values of --consensus-free: none, and stage names in either case
ConsensusFreeInputs == {{}, {"Code", "plan"}, {"TEST_DEBUG", "review"}}

\* the values of model_override: None and a model id
ModelOverrides == {"", "m"}

\* the values of start and end: the nine stages and two unknown names
StageInputs == StageNames \cup {"deploy", "Plan"}

EnvValues == {"", "1"}

\* direct calls of the debate engine: (stage label, schema)
DirectCalls ==
    {<<"plan", "PlanArtifact">>, <<"Plan", "PlanArtifact">>,
     <<"Research", "ResearchArtifact">>, <<"Threat", "ThreatArtifact">>,
     <<"Review", NoSchema>>}

(***************************************************************************)
(* State.                                                                  *)
(***************************************************************************)
VARIABLES
    env,        \* PAYREADY_OFFLINE_MODE and PAYREADY_TEST_MODE
    keyOk,      \* the settings hold a usable API key
    caller,     \* "runner": tekton.swarm.run; "direct": a call of the engine
    start, end, \* run()'s parameters
    pc,         \* where control stands
    i,          \* run(): position of the loop in STAGES
    capture,    \* run(): capture
    results,    \* run(): results, in insertion order
    files,      \* the files under output_dir: name -> content
    invoked,    \* the stage functions run() has invoked, in order
    built,      \* agents constructed so far
    calls,      \* agent calls (arun/run) made so far
    stage,      \* triad_with_mediator: stage
    schema,     \* triad_with_mediator: schema (its class name)
    rounds,     \* triad_with_mediator: rounds
    transcript, \* triad_with_mediator: transcript
    summary,    \* triad_with_mediator: summary of the current round
    round,      \* 0 in the opening round, then 1..rounds
    slot,       \* the next role to speak: index in TriadLabels
    response,   \* the mediator's response
    result,     \* what the stage function returned
    err,        \* the exception that ended the run, if any
    entry,      \* who called run(): "library", "tekton" or "diamond"
    consensus_free, \* run()'s parameter consensus_free
    model_override, \* run()'s parameter model_override ("" for None)
    passed,     \* the consensus_free keyword passed to each invoked stage
    goal,       \* run(goal=...)
    stageGoals, \* the goal keyword passed to each invoked stage
    returned,   \* the value run() returned
    runs,       \* the calls of run() so far, this one included
    cache,      \* AgentFactory._agents_cache of the running process
    serial,     \* the Agent objects constructed so far, in every process
    agentsOf,   \* per stage invocation, the Agent objects it debated with
    summaryFile, \* diamond_summary.json
    kwargs,     \* round trip: the keyword arguments of PlanArtifact(...)
    payload,    \* round trip: the artifact built from them
    text,       \* round trip: payload.json()
    reparsed,   \* round trip: PlanArtifact.parse_raw(text)
    rtPc,       \* round trip: the next step
    runDirs,    \* new_run_dir: the directories under <memory_dir>/runs
    latestLink, \* new_run_dir: the target of runs/latest, NoLink if absent
    clock,      \* new_run_dir: the last reading of the clock
    callers,    \* new_run_dir: per call, its position and locals
    storage,    \* ContextManager: storage_type, "file" or "redis"
    now,        \* ContextManager: the time, in minutes
    cacheEntry, \* ContextManager: the cache entry active_files_24h
    gitRuns,    \* ContextManager: the git subprocesses run so far
    answers,    \* ContextManager: the calls of get_active_files so far
    statusEntry, \* ContextManager: the cache entry git_status
    lastStatus, \* ContextManager: the last call of get_git_status
    context,    \* triad_with_mediator: the input of the latest agent call
    roleCalls,  \* triad_with_mediator: the calls made to each role
    clPc,       \* claude.run: where the call stands
    attempt,    \* claude.run: the attempt of the retry loop
    outcomes,   \* claude.run: the outcome of each request made
    waits,      \* claude.run: the sleeps made, in half seconds
    events,     \* the records appended to events.jsonl
    sessionLog, \* the sections appended to session-log.md
    clErr       \* claude.run: the exception that ended the call

vars ==
    <<env, keyOk, caller, start, end, pc, i, capture, results, files, invoked,
      built, calls, context, roleCalls, stage, schema, rounds, transcript,
      summary, round, slot,
      response, result, err, entry, consensus_free, model_override, passed,
      goal, stageGoals, returned,
      runs, cache, serial, agentsOf, summaryFile, kwargs, payload, text,
      reparsed, rtPc, runDirs, latestLink, clock, callers, storage, now,
      cacheEntry, gitRuns, answers, statusEntry, lastStatus, clPc, attempt,
      outcomes, waits, events, sessionLog, clErr>>

\* the variables of the pipeline
pipelineVars ==
    <<env, keyOk, caller, start, end, pc, i, capture, results, files, invoked,
      built, calls, context, roleCalls, stage, schema, rounds, transcript,
      summary, round, slot,
      response, result, err, entry, consensus_free, model_override, passed,
      goal, stageGoals, returned,
      runs, cache, serial, agentsOf, summaryFile>>

roundTripVars == <<kwargs, payload, text, reparsed, rtPc>>

\* the variables of the components that run apart from the pipeline
runDirVars == <<runDirs, latestLink, clock, callers>>

contextVars ==
    <<storage, now, cacheEntry, gitRuns, answers, statusEntry, lastStatus>>

claudeVars == <<clPc, attempt, outcomes, waits, events, sessionLog, clErr>>

otherVars == <<roundTripVars, runDirVars, contextVars, claudeVars>>

runnerVars == <<i, capture, results, files, invoked>>

callVars == <<context, roleCalls>>

goalVars == <<goal, stageGoals>>

debateVars == <<stage, schema, rounds, transcript, summary, round, slot>>

inputVars == <<env, keyOk, caller, start, end>>

cliVars == <<entry, consensus_free, summaryFile>>

processVars == <<model_override, runs>>

agentVars == <<cache, serial, agentsOf>>

NoFiles == [f \in {} |-> NotJson]

\* an empty _agents_cache
NoAgents == [key \in {} |-> 0]

\* diamond_summary.json does not exist
NoSummary == [written |-> FALSE, goal |-> "", results |-> <<>>]

\* before the mediator has answered
NoResponse == [json |-> FALSE, v |-> Str("")]

Envs == [PAYREADY_OFFLINE_MODE : EnvValues, PAYREADY_TEST_MODE : EnvValues]

\* the state in which run() is entered by one of the given callers with one
\* of the given consensus_free arguments
Start(entries, frees) ==
    /\ env \in Envs
    /\ keyOk \in BOOLEAN
    /\ caller = "runner"
    /\ start \in StageInputs
    /\ end \in StageInputs
    /\ pc = "check"
    /\ i = 1
    /\ capture = FALSE
    /\ results = <<>>
    /\ files = NoFiles
    /\ invoked = <<>>
    /\ built = 0
    /\ calls = 0
    /\ context = NoContext
    /\ roleCalls = NoCalls
    /\ stage = ""
    /\ schema = NoSchema
    /\ rounds = DefaultRounds
    /\ transcript = <<>>
    /\ summary = <<>>
    /\ round = 0
    /\ slot = 1
    /\ response = NoResponse
    /\ result = NoResult
    /\ err = NoError
    /\ entry \in entries
    /\ consensus_free \in frees
    /\ model_override = ""
    /\ passed = <<>>
    /\ goal = "goal"
    /\ stageGoals = <<>>
    /\ returned = NoReturn
    /\ runs = 1
    /\ cache = NoAgents
    /\ serial = 0
    /\ agentsOf = <<>>
    /\ summaryFile = NoSummary

\* no round trip is under way
RoundTripIdle ==
    /\ kwargs = Null
    /\ payload = Null
    /\ text = NoResponse
    /\ reparsed = Null
    /\ rtPc = "idle"

\* the name of a run directory: the timestamp and the uuid suffix (0: none)
DirName(ts, suffix) == <<ts, suffix>>

\* runs/latest does not exist
NoLink == DirName(0, 0)

\* a call of new_run_dir that has not started
NotCalled == [pc |-> "start", ts |-> 0, candidate |-> NoLink, error |-> ""]

\* no call of new_run_dir is made
RunDirIdle ==
    /\ runDirs = {}
    /\ latestLink = NoLink
    /\ clock = 0
    /\ callers = <<>>

\* no cache entry: no cache file, no Redis key
NoEntry == [value |-> Null, stored |-> 0, ttl |-> 0]

\* get_git_status has not been called
NoStatus == [called |-> FALSE, cached |-> FALSE, age |-> 0, value |-> Null]

\* no ContextManager is in use
ContextIdle ==
    /\ storage = "file"
    /\ now = 0
    /\ cacheEntry = NoEntry
    /\ gitRuns = 0
    /\ answers = <<>>
    /\ statusEntry = NoEntry
    /\ lastStatus = NoStatus

\* the components apart from the pipeline are not in use
\* the Claude adapter is not called
ClaudeIdle ==
    /\ clPc = "idle"
    /\ attempt = 0
    /\ outcomes = <<>>
    /\ waits = <<>>
    /\ events = 0
    /\ sessionLog = 0
    /\ clErr = ""

OthersIdle == RoundTripIdle /\ RunDirIdle /\ ContextIdle /\ ClaudeIdle

\* run() called as a library function, consensus_free left at its default
Init == Start({"library"}, {{}}) /\ OthersIdle

(***************************************************************************)
(* tekton.swarm.run                                                        *)
(***************************************************************************)
\* mutant: only start is checked
RunCheckStartOnly ==
    /\ pc = "check"
    /\ IF ~KnownStage(start)
       THEN pc' = "raised" /\ err' = Error("ValueError", "unknown_stage", start, "")
       ELSE pc' = "loop" /\ err' = err
    /\ UNCHANGED <<otherVars, inputVars, cliVars, processVars, agentVars, passed, goalVars, returned,
                   runnerVars, debateVars, built, calls, callVars, response, result>>

\* lines 61-70: reject unknown stage names, then set up the loop
RunCheck ==
    /\ pc = "check"
    /\ IF ~KnownStage(start)
       THEN pc' = "raised" /\ err' = Error("ValueError", "unknown_stage", start, "")
       ELSE IF ~KnownStage(end)
            THEN pc' = "raised" /\ err' = Error("ValueError", "unknown_stage", end, "")
            ELSE pc' = "loop" /\ err' = err
    /\ UNCHANGED <<otherVars, inputVars, cliVars, processVars, agentVars, passed, goalVars, returned,
                   runnerVars, debateVars, built, calls, callVars, response, result>>

\* lines 71-75: a stage before start is skipped
SkipStage ==
    /\ pc = "loop"
    /\ i <= Len(STAGES)
    /\ ~capture /\ STAGES[i] # start
    /\ i' = i + 1
    /\ UNCHANGED <<otherVars, inputVars, cliVars, processVars, agentVars, passed, goalVars, returned,
                   pc, capture, results, files, invoked, debateVars,
                   built, calls, callVars, response, result, err>>

\* the stage at position j raised with error e
Fail(j, e) ==
    /\ pc' = StageFailed(j).pc
    /\ i' = StageFailed(j).i
    /\ err' = e

\* lines 71-85 and the stage function up to its first agent call: build the
\* prompt from the earlier results, build the four agents, open the debate
InvokeStage ==
    /\ pc = "loop"
    /\ i <= Len(STAGES)
    /\ capture \/ STAGES[i] = start
    /\ capture' = TRUE
    /\ invoked' = Append(invoked, STAGES[i])
    /\ passed' = Append(passed, ConsensusFreeKwarg(STAGES[i], consensus_free))
    /\ stageGoals' = Append(stageGoals, goal)
    /\ UNCHANGED <<goal, returned>>
    /\ IF PromptRaises(STAGES[i], results)
       THEN /\ Fail(i, Error("TypeError", "prompt", "", ""))
            /\ UNCHANGED <<built, debateVars, agentVars>>
       ELSE IF /\ BuildRaises(STAGES[i], env, keyOk)
               /\ Uncached(STAGES[i], model_override, cache) # {}
            THEN /\ Fail(i, Error("ValueError", "agent_build", "", ""))
                 /\ UNCHANGED <<built, debateVars, agentVars>>
            ELSE /\ built' = built + Cardinality(Uncached(STAGES[i], model_override, cache))
                 /\ serial' = IF Uncached(STAGES[i], model_override, cache) = {}
                              THEN serial
                              ELSE serial + Len(Roles)
                 /\ cache' = CacheAfter(STAGES[i], model_override, cache, serial)
                 /\ agentsOf' =
                       Append(agentsOf,
                              [stage |-> STAGES[i],
                               agents |-> BuildAgents(STAGES[i], model_override,
                                                      cache, serial)])
                 /\ stage' = StageLabel(STAGES[i])
                 /\ schema' = StageSchema(STAGES[i])
                 /\ rounds' = DefaultRounds
                 /\ transcript' = <<>>
                 /\ summary' = <<>>
                 /\ round' = 0
                 /\ slot' = 1
                 /\ pc' = "debate"
                 /\ UNCHANGED <<i, err>>
    /\ context' = NoContext
    /\ roleCalls' = NoCalls
    /\ UNCHANGED <<otherVars, inputVars, cliVars, processVars, results, files, calls,
                   response, result>>

\* lines 86-102: write the artifact, record the result, stop at end
Persist ==
    /\ pc = "persist"
    /\ LET name == STAGES[i]
           written == result.artifact # Null
           stored == IF written
                     THEN [result EXCEPT !.artifact_path = ArtifactFilename(name)]
                     ELSE result
       IN /\ files' = IF written
                      THEN WriteText(files, ArtifactFilename(name),
                                     Serialize(result.artifact))
                      ELSE files
          /\ results' = Record(results, name, stored)
          /\ result' = stored
          /\ pc' = Proceed(name, end, i, stored).pc
          /\ i' = Proceed(name, end, i, stored).i
          /\ returned' = IF pc' = "done"
                         THEN Summary(goal, results')
                         ELSE returned
    /\ UNCHANGED <<otherVars, inputVars, cliVars, processVars, agentVars, passed, goalVars,
                   capture, invoked, debateVars, built, calls, callVars,
                   response, err>>

\* line 104: the loop ran out of stages
Return ==
    /\ pc = "loop"
    /\ i > Len(STAGES)
    /\ pc' = "done"
    /\ returned' = Summary(goal, results)
    /\ UNCHANGED <<otherVars, inputVars, cliVars, processVars, agentVars, passed, goalVars,
                   runnerVars, debateVars, built, calls, callVars, response,
                   result, err>>

(***************************************************************************)
(* core.jury.triad_with_mediator                                           *)
(***************************************************************************)
\* mutant: a failed call is swallowed and the role is asked again
AbortRetries(e) ==
    pc' = pc /\ i' = i /\ err' = e

\* an exception inside the debate: it leaves the stage function
Abort(e) ==
    IF caller = "runner"
    THEN Fail(i, e)
    ELSE pc' = "raised" /\ i' = i /\ err' = e

\* lines 48-69: the next role answers and its message is appended
AgentReplies ==
    /\ pc = "debate"
    /\ \E out \in AgentOutputs(caller) :
          transcript' = Append(transcript, <<TriadLabels[slot], ToMessage(out)>>)
    /\ calls' = calls + 1
    /\ context' = IF round = 0
                  THEN OpeningInput(stage, transcript)
                  ELSE DebateInput(summary, transcript)
    /\ roleCalls' = [roleCalls EXCEPT ![TriadLabels[slot]] = @ + 1]
    /\ IF slot < Len(TriadLabels)
       THEN slot' = slot + 1 /\ UNCHANGED <<round, summary, pc>>
       ELSE IF round < rounds
            THEN /\ round' = round + 1
                 /\ slot' = 1
                 /\ summary' = AsMessages(transcript')
                 /\ pc' = pc
            ELSE pc' = "mediate" /\ UNCHANGED <<round, slot, summary>>
    /\ UNCHANGED <<otherVars, inputVars, cliVars, processVars, agentVars, passed, goalVars, returned,
                   runnerVars, stage, schema, rounds, built, response,
                   result, err>>

\* lines 48-52: the agent call raises
AgentFails ==
    /\ pc = "debate"
    /\ calls' = calls + 1
    /\ context' = IF round = 0
                  THEN OpeningInput(stage, transcript)
                  ELSE DebateInput(summary, transcript)
    /\ roleCalls' = [roleCalls EXCEPT ![TriadLabels[slot]] = @ + 1]
    /\ Abort(Error("AgentError", "agent_call", "", ""))
    /\ UNCHANGED <<otherVars, inputVars, cliVars, processVars, agentVars, passed, goalVars, returned,
                   capture, results, files, invoked, debateVars, built,
                   response, result>>

\* lines 71-153: the mediator answers; parse, recover or raise, validate
MediatorReplies ==
    /\ pc = "mediate"
    /\ calls' = calls + 1
    /\ context' = MediatorPrompt(transcript)
    /\ roleCalls' = [roleCalls EXCEPT !["Mediator"] = @ + 1]
    /\ \E resp \in MediatorResponses(schema) :
          LET out == Conclude(stage, schema, resp, transcript, env) IN
          /\ response' = resp
          /\ IF out.raised
             THEN Abort(out.err) /\ result' = result
             ELSE /\ result' = out.result
                  /\ pc' = IF caller = "runner" THEN "persist" ELSE "returned"
                  /\ UNCHANGED <<i, err>>
    /\ UNCHANGED <<otherVars, inputVars, cliVars, processVars, agentVars, passed, goalVars, returned,
                   capture, results, files, invoked, debateVars, built>>

\* lines 79-83: the mediator call raises
MediatorFails ==
    /\ pc = "mediate"
    /\ calls' = calls + 1
    /\ context' = MediatorPrompt(transcript)
    /\ roleCalls' = [roleCalls EXCEPT !["Mediator"] = @ + 1]
    /\ Abort(Error("AgentError", "agent_call", "", ""))
    /\ UNCHANGED <<otherVars, inputVars, cliVars, processVars, agentVars, passed, goalVars, returned,
                   capture, results, files, invoked, debateVars, built,
                   response, result>>

Next ==
    \/ RunCheck
    \/ SkipStage
    \/ InvokeStage
    \/ AgentReplies
    \/ AgentFails
    \/ MediatorReplies
    \/ MediatorFails
    \/ Persist
    \/ Return

Spec == Init /\ [][Next]_vars

(***************************************************************************)
(* A direct call of triad_with_mediator, with any number of rounds.        *)
(***************************************************************************)
InitJury ==
    /\ env \in Envs
    /\ keyOk = TRUE
    /\ caller = "direct"
    /\ start = "plan"
    /\ end = "plan"
    /\ pc = "debate"
    /\ i = 1
    /\ capture = FALSE
    /\ results = <<>>
    /\ files = NoFiles
    /\ invoked = <<>>
    /\ built = 0
    /\ calls = 0
    /\ context = NoContext
    /\ roleCalls = NoCalls
    /\ \E c \in DirectCalls : stage = c[1] /\ schema = c[2]
    /\ rounds \in 0..MaxRounds
    /\ transcript = <<>>
    /\ summary = <<>>
    /\ round = 0
    /\ slot = 1
    /\ response = NoResponse
    /\ result = NoResult
    /\ err = NoError
    /\ entry = "library"
    /\ consensus_free = {}
    /\ model_override = ""
    /\ passed = <<>>
    /\ goal = "goal"
    /\ stageGoals = <<>>
    /\ returned = NoReturn
    /\ runs = 1
    /\ cache = NoAgents
    /\ serial = 0
    /\ agentsOf = <<>>
    /\ summaryFile = NoSummary
    /\ OthersIdle

NextJury ==
    \/ AgentReplies
    \/ AgentFails
    \/ MediatorReplies
    \/ MediatorFails

SpecJury == InitJury /\ [][NextJury]_vars

(***************************************************************************)
(* run() called again with the same start, end and output_dir: by the same *)
(* process, whose AgentFactory singleton lives on, or by a new process.    *)
(***************************************************************************)
RunAgain ==
    /\ pc \in {"done", "raised"}
    /\ runs < MaxRuns
    /\ runs' = runs + 1
    /\ \E m \in ModelOverrides : model_override' = m
    /\ \E sameProcess \in BOOLEAN :
          cache' = IF sameProcess THEN cache ELSE NoAgents
    /\ pc' = "check"
    /\ i' = 1
    /\ capture' = FALSE
    /\ results' = <<>>
    /\ invoked' = <<>>
    /\ passed' = <<>>
    /\ goal' = goal
    /\ stageGoals' = <<>>
    /\ returned' = NoReturn
    /\ built' = 0
    /\ calls' = 0
    /\ context' = NoContext
    /\ roleCalls' = NoCalls
    /\ stage' = ""
    /\ schema' = NoSchema
    /\ rounds' = DefaultRounds
    /\ transcript' = <<>>
    /\ summary' = <<>>
    /\ round' = 0
    /\ slot' = 1
    /\ response' = NoResponse
    /\ result' = NoResult
    /\ err' = NoError
    /\ UNCHANGED <<otherVars, inputVars, cliVars, files, serial, agentsOf>>

NextRerun ==
    \/ Next
    \/ RunAgain

SpecRerun == Init /\ [][NextRerun]_vars

(***************************************************************************)
(* The command-line entries: tekton/cli.py execute and cli/cli.py diamond. *)
(***************************************************************************)
\* json.dumps(result) raises TypeError for a pydantic model; the diamond
\* entry converts the models with _serialise_result first
DumpRaises(e, res) ==
    e = "tekton" /\ \E j \in 1..Len(res) : res[j].result.artifact.k = "model"

\* _serialise_result: json.loads(value.json()) for every artifact model
SerialiseResult(res) ==
    [j \in 1..Len(res) |->
        [name |-> res[j].name,
         result |-> [res[j].result EXCEPT
                        !.artifact = IF @.k = "model" THEN Dict(@.o) ELSE @]]]

\* after run() has returned: write diamond_summary.json
WriteSummary ==
    /\ pc = "done"
    /\ entry \in Entries
    /\ IF DumpRaises(entry, results)
       THEN /\ pc' = "crashed"
            /\ err' = Error("TypeError", "summary", "", "")
            /\ UNCHANGED summaryFile
       ELSE /\ pc' = "exit"
            /\ summaryFile' = [written |-> TRUE, goal |-> returned.goal,
                               results |-> SerialiseResult(results)]
            /\ UNCHANGED err
    /\ UNCHANGED <<otherVars, inputVars, entry, consensus_free, processVars, agentVars,
                   passed, goalVars, returned, runnerVars, debateVars, built, calls, callVars, response,
                   result>>

InitCli == Start(Entries, ConsensusFreeInputs) /\ OthersIdle

NextCli ==
    \/ Next
    \/ WriteSummary

SpecCli == InitCli /\ [][NextCli]_vars

(***************************************************************************)
(* A PlanArtifact built from keyword arguments, serialised and parsed      *)
(* again.                                                                  *)
(***************************************************************************)
\* bound of the lengths of the list arguments
MaxLen == 2

\* the keyword arguments: those of test_plan_schema_roundtrip, with lists
\* of every length up to the bound
PlanKwargs ==
    {Dict([goals |-> List(g), milestones |-> List(m),
           acceptance_criteria |-> List(a), risks |-> List(r),
           dri |-> Str(d), timeline |-> Str(t), confidence |-> Num(8)]) :
        g \in 0..MaxLen, m \in 0..MaxLen, a \in 0..MaxLen, r \in 0..MaxLen,
        d \in {"a", "Payments Team"}, t \in {"t", "2 sprints"}}

\* schema.parse_obj(json.loads(text)); Null when either step fails
ParseRaw(class, t) ==
    IF t.json /\ Conforms(class, t.v)
    THEN Model(class, ParseObj(class, t.v))
    ELSE Null

\* PlanArtifact(**kwargs): a model, or a ValidationError
BuildPlan ==
    /\ rtPc = "build"
    /\ IF Conforms("PlanArtifact", kwargs)
       THEN /\ payload' = Model("PlanArtifact", ParseObj("PlanArtifact", kwargs))
            /\ rtPc' = "dump"
       ELSE /\ payload' = payload
            /\ rtPc' = "invalid"
    /\ UNCHANGED <<pipelineVars, claudeVars, runDirVars, contextVars, kwargs, text, reparsed>>

\* payload.json()
DumpPlan ==
    /\ rtPc = "dump"
    /\ text' = Serialize(payload)
    /\ rtPc' = "parse"
    /\ UNCHANGED <<pipelineVars, claudeVars, runDirVars, contextVars, kwargs, payload, reparsed>>

\* the text validated again
ParsePlan ==
    /\ rtPc = "parse"
    /\ reparsed' = ParseRaw("PlanArtifact", text)
    /\ rtPc' = "done"
    /\ UNCHANGED <<pipelineVars, claudeVars, runDirVars, contextVars, kwargs, payload, text>>

\* the pipeline at rest: no run is under way
PipelineIdle ==
    /\ Start({"library"}, {{}})
    /\ env = [PAYREADY_OFFLINE_MODE |-> "", PAYREADY_TEST_MODE |-> ""]
    /\ keyOk
    /\ start = "plan"
    /\ end = "plan"

InitRoundTrip ==
    /\ PipelineIdle
    /\ ClaudeIdle
    /\ kwargs \in PlanKwargs
    /\ payload = Null
    /\ text = NoResponse
    /\ reparsed = Null
    /\ rtPc = "build"
    /\ RunDirIdle
    /\ ContextIdle

NextRoundTrip ==
    \/ BuildPlan
    \/ DumpPlan
    \/ ParsePlan

SpecRoundTrip == InitRoundTrip /\ [][NextRoundTrip]_vars

(***************************************************************************)
(* cli/agents/_io.py new_run_dir, called by several processes on the same  *)
(* memory directory.  Every action is one system call of one caller.       *)
(***************************************************************************)
\* bound of the number of calls
MaxCallers == 2

\* bound of the clock readings (microseconds)
MaxTime == 2

Callers == 1..MaxCallers

\* the call c moves to pc with the given locals
Moves(c, to, ts, candidate, error) ==
    callers' = [callers EXCEPT ![c] = [pc |-> to, ts |-> ts,
                                       candidate |-> candidate, error |-> error]]

\* lines 47-50: runs_dir.mkdir(exist_ok=True); read the clock
ReadClock(c) ==
    /\ callers[c].pc = "start"
    /\ \E t \in 1..MaxTime :
          /\ t >= clock
          /\ clock' = t
          /\ Moves(c, "exists", t, DirName(t, 0), "")
    /\ UNCHANGED <<pipelineVars, claudeVars, roundTripVars, contextVars, runDirs, latestLink>>

\* lines 51-53: if candidate.exists(), append a uuid (unique per call)
CheckCandidate(c) ==
    /\ callers[c].pc = "exists"
    /\ Moves(c, "mkdir", callers[c].ts,
             IF callers[c].candidate \in runDirs
             THEN DirName(callers[c].ts, c)
             ELSE callers[c].candidate, "")
    /\ UNCHANGED <<pipelineVars, claudeVars, roundTripVars, contextVars, runDirs, latestLink, clock>>

\* line 54: candidate.mkdir(parents=True, exist_ok=False)
MakeDir(c) ==
    /\ callers[c].pc = "mkdir"
    /\ IF callers[c].candidate \in runDirs
       THEN /\ Moves(c, "failed", callers[c].ts, callers[c].candidate,
                     "FileExistsError")
            /\ UNCHANGED runDirs
       ELSE /\ runDirs' = runDirs \cup {callers[c].candidate}
            /\ Moves(c, "link", callers[c].ts, callers[c].candidate, "")
    /\ UNCHANGED <<pipelineVars, claudeVars, roundTripVars, contextVars, latestLink, clock>>

\* line 57: latest_link.exists() or latest_link.is_symlink()
CheckLink(c) ==
    /\ callers[c].pc = "link"
    /\ Moves(c, IF latestLink # NoLink THEN "unlink" ELSE "symlink",
             callers[c].ts, callers[c].candidate, "")
    /\ UNCHANGED <<pipelineVars, claudeVars, roundTripVars, contextVars, runDirs, latestLink, clock>>

\* line 58: latest_link.unlink()
Unlink(c) ==
    /\ callers[c].pc = "unlink"
    /\ IF latestLink = NoLink
       THEN /\ Moves(c, "failed", callers[c].ts, callers[c].candidate,
                     "FileNotFoundError")
            /\ UNCHANGED latestLink
       ELSE /\ latestLink' = NoLink
            /\ Moves(c, "symlink", callers[c].ts, callers[c].candidate, "")
    /\ UNCHANGED <<pipelineVars, claudeVars, roundTripVars, contextVars, runDirs, clock>>

\* lines 59-64: latest_link.symlink_to(candidate), OSError ignored; return
Symlink(c) ==
    /\ callers[c].pc = "symlink"
    /\ latestLink' = IF latestLink = NoLink THEN callers[c].candidate ELSE latestLink
    /\ Moves(c, "returned", callers[c].ts, callers[c].candidate, "")
    /\ UNCHANGED <<pipelineVars, claudeVars, roundTripVars, contextVars, runDirs, clock>>

InitRunDir ==
    /\ PipelineIdle
    /\ ClaudeIdle
    /\ RoundTripIdle
    /\ runDirs = {}
    /\ latestLink = NoLink
    /\ clock = 0
    /\ callers = [c \in Callers |-> NotCalled]
    /\ ContextIdle

NextRunDir ==
    \E c \in Callers :
        \/ ReadClock(c)
        \/ CheckCandidate(c)
        \/ MakeDir(c)
        \/ CheckLink(c)
        \/ Unlink(c)
        \/ Symlink(c)

SpecRunDir == InitRunDir /\ [][NextRunDir]_vars

(***************************************************************************)
(* services/context_manager.py: get_active_files and its cache.  Time is   *)
(* counted in minutes.                                                     *)
(***************************************************************************)
\* bound of the clock
MaxNow == 11

\* bound of the number of calls of get_active_files
MaxCalls == 2

\* bound of the number of changed files that exist on disk
MaxFiles == 1

\* max_age_minutes of the active-files cache
CacheMinutes == 10

\* default of _set_cache's ttl_minutes
DefaultTtl == 10

\* one entry of the list get_active_files returns
FileInfo ==
    [path |-> Str("file1.py"), modified |-> Str("iso"), size |-> JInt(1),
     extension |-> Str(".py")]

\* what the git subprocess may do: raise (timeout, no git), exit with an
\* error, or list changed files of which some exist on disk
GitOutcomes ==
    {[status |-> "raises", files |-> 0], [status |-> "nonzero", files |-> 0]}
    \cup {[status |-> "ok", files |-> n] : n \in 0..MaxFiles}

\* active_files after lines 78-111
ActiveFiles(out) == Objs(out.files, FileInfo)

\* Python's truth value of a cached value
Truthy(v) ==
    /\ v.k # "null"
    /\ v.k \in {"list", "objs"} => v.n > 0

\* _get_cache: Redis drops the key after its TTL and ignores max_age; the
\* cache file is compared with max_age_minutes, given here in half minutes
GetCache(st, cached, t, maxAgeHalves) ==
    IF cached = NoEntry
    THEN Null
    ELSE IF st = "redis"
         THEN IF t - cached.stored < cached.ttl THEN cached.value ELSE Null
         ELSE IF 2 * (t - cached.stored) < maxAgeHalves
              THEN cached.value
              ELSE Null

\* _set_cache: the value with the time it was stored
SetCache(value, t, ttl) == [value |-> value, stored |-> t, ttl |-> ttl]

\* a minute passes
Tick ==
    /\ now < MaxNow
    /\ now' = now + 1
    /\ UNCHANGED <<pipelineVars, claudeVars, roundTripVars, runDirVars, storage, cacheEntry,
                   gitRuns, answers, statusEntry, lastStatus>>

\* get_active_files(hours=24)
GetActiveFiles ==
    /\ Len(answers) < MaxCalls
    /\ LET cached == GetCache(storage, cacheEntry, now, 2 * CacheMinutes) IN
       IF Truthy(cached)
       THEN /\ answers' = Append(answers, [t |-> now, value |-> cached,
                                           git |-> "none"])
            /\ UNCHANGED <<cacheEntry, gitRuns>>
       ELSE /\ gitRuns' = gitRuns + 1
            /\ \E out \in GitOutcomes :
                  /\ answers' = Append(answers, [t |-> now,
                                                 value |-> ActiveFiles(out),
                                                 git |-> out.status])
                  /\ cacheEntry' =
                        IF out.status = "raises"
                        THEN cacheEntry
                        ELSE SetCache(ActiveFiles(out), now, DefaultTtl)
    /\ UNCHANGED <<pipelineVars, claudeVars, roundTripVars, runDirVars, storage, now,
                   statusEntry, lastStatus>>

\* max_age_minutes of the git_status cache, 0.5, in half minutes
GitStatusHalfMinutes == 1

\* the status get_git_status computes: the default one when git exits with
\* an error, else what git reports
GitStatus(out) ==
    Dict([branch |-> Str(IF out.status = "ok" THEN "main" ELSE "unknown"),
          clean |-> Bool(out.files = 0), modified |-> JInt(out.files)])

\* get_git_status()
GetGitStatus ==
    /\ LET cached == GetCache(storage, statusEntry, now, GitStatusHalfMinutes) IN
       IF Truthy(cached)
       THEN /\ lastStatus' = [called |-> TRUE, cached |-> TRUE,
                              age |-> now - statusEntry.stored, value |-> cached]
            /\ UNCHANGED <<statusEntry, gitRuns>>
       ELSE /\ gitRuns < MaxCalls
            /\ gitRuns' = gitRuns + 1
            /\ \E out \in GitOutcomes :
                  /\ lastStatus' = [called |-> TRUE, cached |-> FALSE, age |-> 0,
                                    value |-> GitStatus(out)]
                  /\ statusEntry' =
                        IF out.status = "raises"
                        THEN statusEntry
                        ELSE SetCache(GitStatus(out), now, DefaultTtl)
    /\ UNCHANGED <<pipelineVars, claudeVars, roundTripVars, runDirVars, storage, now,
                   cacheEntry, answers>>

InitContext ==
    /\ PipelineIdle
    /\ ClaudeIdle
    /\ RoundTripIdle
    /\ RunDirIdle
    /\ storage \in {"file", "redis"}
    /\ now = 0
    /\ cacheEntry = NoEntry
    /\ gitRuns = 0
    /\ answers = <<>>
    /\ statusEntry = NoEntry
    /\ lastStatus = NoStatus

NextContext ==
    \/ Tick
    \/ GetActiveFiles

SpecContext == InitContext /\ [][NextContext]_vars

NextGitStatus ==
    \/ Tick
    \/ GetGitStatus

SpecGitStatus == InitContext /\ [][NextGitStatus]_vars

(***************************************************************************)
(* cli/agents/claude.py: run(), after new_run_dir has made the run         *)
(* directory.  A request ends in a response (status, body) or in a         *)
(* transport error; both HTTPStatusError and the transport errors are      *)
(* httpx.HTTPError.                                                        *)
(***************************************************************************)
\* for attempt in range(4)
Attempts == 4

\* if attempt == 3: raise
LastAttempt == 3

\* the statuses the loop tests for before raise_for_status
RetryStatuses == {429, 500, 502, 503, 504}

\* time.sleep(0.5 * (2 ** attempt)), in half seconds
Backoff(n) == 2 ^ n

TransportError == [kind |-> "error", status |-> 0, body |-> ""]

HttpResponse(status, body) == [kind |-> "response", status |-> status, body |-> body]

\* what client.post may produce: a response whose body is a JSON object or
\* is no JSON, an error response, or a transport error
PostOutcomes ==
    {HttpResponse(200, "object"), HttpResponse(200, "text"),
     HttpResponse(400, ""), HttpResponse(429, ""), HttpResponse(503, ""),
     TransportError}

\* response.raise_for_status() raises HTTPStatusError
RaisesForStatus(o) == o.status >= 400

\* response.json() raises JSONDecodeError
JsonRaises(o) == o.body # "object"

\* lines 105-132: one client.post of the retry loop or of its else branch
Post ==
    /\ clPc = "post"
    /\ \E o \in PostOutcomes :
          /\ outcomes' = Append(outcomes, o)
          /\ IF attempt < Attempts
             THEN IF o.kind = "response" /\ o.status \in RetryStatuses
                  THEN /\ waits' = Append(waits, Backoff(attempt))
                       /\ attempt' = attempt + 1
                       /\ UNCHANGED <<clPc, clErr>>
                  ELSE IF o.kind = "response" /\ ~RaisesForStatus(o)
                       THEN /\ clPc' = "parse"
                            /\ UNCHANGED <<attempt, waits, clErr>>
                       ELSE IF attempt = LastAttempt
                            THEN /\ clPc' = "failed"
                                 /\ clErr' = "HTTPError"
                                 /\ UNCHANGED <<attempt, waits>>
                            ELSE /\ waits' = Append(waits, Backoff(attempt))
                                 /\ attempt' = attempt + 1
                                 /\ UNCHANGED <<clPc, clErr>>
             ELSE IF o.kind = "response" /\ ~RaisesForStatus(o)
                  THEN /\ clPc' = "parse"
                       /\ UNCHANGED <<attempt, waits, clErr>>
                  ELSE /\ clPc' = "failed"
                       /\ clErr' = "HTTPError"
                       /\ UNCHANGED <<attempt, waits>>
    /\ UNCHANGED <<pipelineVars, roundTripVars, runDirVars, contextVars, events,
                   sessionLog>>

\* lines 133-167: except httpx.HTTPError: metadata.json, one event, one
\* section with Outcome FAILED, then typer.Exit(1)
LogFailure ==
    /\ clPc = "failed"
    /\ events' = events + 1
    /\ sessionLog' = sessionLog + 1
    /\ clPc' = "exited"
    /\ UNCHANGED <<pipelineVars, roundTripVars, runDirVars, contextVars, attempt,
                   outcomes, waits, clErr>>

\* lines 171-214: response.json(), response.md, metadata.json, one section
\* with Outcome OK, one event, return
ParseResponse ==
    /\ clPc = "parse"
    /\ IF JsonRaises(outcomes[Len(outcomes)])
       THEN /\ clPc' = "raised"
            /\ clErr' = "JSONDecodeError"
            /\ UNCHANGED <<events, sessionLog>>
       ELSE /\ sessionLog' = sessionLog + 1
            /\ events' = events + 1
            /\ clPc' = "returned"
            /\ UNCHANGED clErr
    /\ UNCHANGED <<pipelineVars, roundTripVars, runDirVars, contextVars, attempt,
                   outcomes, waits>>

InitClaude ==
    /\ PipelineIdle
    /\ RoundTripIdle
    /\ RunDirIdle
    /\ ContextIdle
    /\ clPc = "post"
    /\ attempt = 0
    /\ outcomes = <<>>
    /\ waits = <<>>
    /\ events = 0
    /\ sessionLog = 0
    /\ clErr = ""

NextClaude ==
    \/ Post
    \/ LogFailure
    \/ ParseResponse

SpecClaude == InitClaude /\ [][NextClaude]_vars

(***************************************************************************)
(* Properties.                                                             *)
(***************************************************************************)
ResultKeys == [j \in 1..Len(results) |-> results[j].name]

Last(s) == s[Len(s)]

IsPrefix(s, u) == Len(s) <= Len(u) /\ SubSeq(u, 1, Len(s)) = s

Offline == env.PAYREADY_OFFLINE_MODE = "1" \/ env.PAYREADY_TEST_MODE = "1"

Finished == pc \in {"done", "raised"}

\* start and end are stages, start at or before end
OrderedRange ==
    start \in StageNames /\ end \in StageNames /\ Idx(start) <= Idx(end)

\* every recorded mediator payload is a JSON object the mediator returned
MediatorsReturnedObjects ==
    \A j \in 1..Len(results) :
        /\ results[j].result.mediator.k = "dict"
        /\ results[j].result.mediator # StubPayload(StageLabel(results[j].name))

\* C1: for known start at or before end, when no agent call or agent
\* construction fails and every mediator returns a schema-valid JSON object,
\* the run ends normally having executed exactly the stages start..end, each
\* once and in the fixed order, and the keys of the returned results are
\* those stages in that order.
C1_ExecutesStartThroughEnd ==
    ( /\ start \in StageNames
      /\ end \in StageNames
      /\ Finished
      /\ err.cause \notin {"agent_call", "agent_build", "malformed", "schema"}
      /\ MediatorsReturnedObjects
      /\ Idx(start) <= Idx(end) )
    => /\ pc = "done"
       /\ invoked = SubSeq(STAGES, Idx(start), Idx(end))
       /\ ResultKeys = SubSeq(STAGES, Idx(start), Idx(end))

\* C2: for every pair of known stage names, start after end included, no
\* stage positioned after end is ever executed.
C2_NeverPastEnd ==
    (start \in StageNames /\ end \in StageNames)
    => \A j \in 1..Len(invoked) : Idx(invoked[j]) <= Idx(end)

\* C3: in a debate of R rounds without a failing agent call the transcript
\* handed to the mediator and returned has 3*(R+1) entries labelled
\* Proponent, Skeptic, Pragmatist in turn, none by the mediator, and every
\* step only appends to the transcript.
C3_TranscriptShape ==
    /\ [](pc \in {"mediate", "returned"} =>
            /\ Len(transcript) = 3 * (rounds + 1)
            /\ \A j \in 1..Len(transcript) :
                  transcript[j][1] =
                      <<"Proponent", "Skeptic", "Pragmatist">>[((j - 1) % 3) + 1]
            /\ (pc = "returned" => result.transcript = transcript))
    /\ [][IsPrefix(transcript, transcript')]_vars

C3_Witness ==
    pc = "returned" /\ rounds = 2 /\ Len(result.transcript) = 9

\* C4: with an unknown start or end the run raises at once: no stage
\* function is invoked, no agent is built or called, no file is written.
C4_FailFast ==
    (start \notin StageNames \/ end \notin StageNames)
    => /\ pc \in {"check", "raised"}
       /\ (pc = "raised" => err.type = "ValueError" /\ err.cause = "unknown_stage")
       /\ invoked = <<>>
       /\ built = 0
       /\ calls = 0
       /\ DOMAIN files = {}
       /\ results = <<>>

C4_Witness ==
    pc = "raised" /\ start \in StageNames /\ end \notin StageNames

\* C5: once a stage invocation has raised, the run has ended with that error
\* at its caller, the failed stage is the last one invoked and no stage is
\* invoked afterwards.
C5_FailureStopsRun ==
    /\ [](err # NoError =>
            /\ pc = "raised"
            /\ (err.cause # "unknown_stage" =>
                    /\ invoked # <<>>
                    /\ Last(invoked) = STAGES[i]
                    /\ STAGES[i] \notin {results[j].name : j \in 1..Len(results)}))
    /\ [][err # NoError => invoked' = invoked /\ calls' = calls]_vars

C5_Witness ==
    /\ pc = "raised"
    /\ err.cause \in {"agent_call", "malformed", "schema"}
    /\ Len(invoked) >= 2
    /\ i < Idx(end)

\* C6: when a stage fails, the artifact file of every stage completed
\* earlier in the run is on disk and holds that stage's artifact.
C6_ArtifactsSurviveFailure ==
    (pc = "raised" /\ err.cause # "unknown_stage")
    => \A j \in 1..Len(results) :
          results[j].result.artifact # Null =>
              /\ results[j].result.artifact_path \in DOMAIN files
              /\ files[results[j].result.artifact_path] =
                     Json(Dict(results[j].result.artifact.o))

C6_Witness ==
    /\ pc = "raised"
    /\ Len(results) >= 2
    /\ \A j \in 1..Len(results) : results[j].result.artifact # Null

\* C7: a plan-stage mediator response that is no JSON yields, with
\* PAYREADY_OFFLINE_MODE or PAYREADY_TEST_MODE set to 1, a payload of status
\* success and confidence 0.8 whose synthesized artifact has goals and
\* validates as PlanArtifact; with neither set it raises an error naming the
\* plan stage and returns nothing.
C7_PlanFallback ==
    ( /\ stage \in {"plan", "Plan"}
      /\ schema = "PlanArtifact"
      /\ response \in {NotJson, NotText}
      /\ pc \in {"returned", "raised"}
      /\ err.cause # "agent_call" )
    => IF Offline
       THEN /\ pc = "returned"
            /\ result.mediator.o.status = Str("success")
            /\ result.mediator.o.confidence = Num(8)
            /\ "goals" \in DOMAIN result.mediator.o.artifact.o
            /\ result.artifact.k = "model"
            /\ result.artifact.s = "PlanArtifact"
            /\ Conforms("PlanArtifact", Dict(result.artifact.o))
       ELSE /\ pc = "raised"
            /\ err.cause = "malformed"
            /\ err.stage = stage
            /\ result = NoResult

C7_Witness ==
    /\ pc = "returned"
    /\ stage = "Plan"
    /\ response = NotJson
    /\ env.PAYREADY_TEST_MODE = "1"
    /\ env.PAYREADY_OFFLINE_MODE = ""

\* C8: in offline/test mode a mediator response that is no JSON never makes
\* a stage invocation fail, whatever the stage (runs from start to a later
\* or the same end).
C8_FallbackNeverFails ==
    (OrderedRange /\ Offline /\ response \in {NotJson, NotText})
    => err.cause \notin {"malformed", "schema"}

\* the payload the engine validates, once the mediator has answered
CurrentPayload == IF response.json THEN response.v ELSE StubPayload(stage)

\* the mediator's answer of the current debate has been processed
Processed ==
    \/ pc \in {"persist", "returned"}
    \/ pc = "raised" /\ err.cause \in {"malformed", "schema"}

\* C9: with a schema, a validated value that does not conform makes the
\* stage invocation raise an error naming the stage and the schema, in
\* either mode; nothing is returned for the stage, and every artifact
\* returned or written conforms to its schema.
C9_InvalidArtifactRaises ==
    /\ ( /\ Processed
         /\ schema # NoSchema
         /\ (response.json \/ Offline)
         /\ ~(CurrentPayload.k = "dict"
              /\ Conforms(schema, Get(CurrentPayload, "artifact", CurrentPayload))) )
       => /\ pc = "raised"
          /\ err = Error("ValueError", "schema", stage, schema)
          /\ STAGES[i] \notin {results[j].name : j \in 1..Len(results)}
    /\ (pc = "persist" /\ schema # NoSchema)
       => /\ result.artifact.k = "model"
          /\ Conforms(schema, Dict(result.artifact.o))
    /\ \A j \in 1..Len(results) :
          StageSchema(results[j].name) # NoSchema =>
              /\ results[j].result.artifact.k = "model"
              /\ Conforms(StageSchema(results[j].name),
                          Dict(results[j].result.artifact.o))
              /\ files[results[j].result.artifact_path].v.k = "dict"
              /\ Conforms(StageSchema(results[j].name),
                          files[results[j].result.artifact_path].v)

C9_Witness ==
    /\ pc = "raised"
    /\ err.cause = "schema"
    /\ Offline
    /\ response.json
    /\ Len(results) >= 1

\* C10: a malformed mediator output in strict mode raises a
\* MediatorOutputInvalid and a schema validation failure raises an
\* ArtifactValidationError, two distinct error types.
C10_TypedErrors ==
    OrderedRange =>
        /\ err.cause = "malformed" => err.type = "MediatorOutputInvalid"
        /\ err.cause = "schema" => err.type = "ArtifactValidationError"

\* the confidence of a JSON object or of an artifact model, in tenths
ConfidenceOf(fields) == fields.confidence.n

\* C11: every artifact a stage returns or the runner records or writes has
\* a confidence within [0.0, 1.0], and for every schema a mediator payload
\* whose artifact carries a confidence outside that range makes the stage
\* fail validation: nothing is returned, recorded or written for it.
C11_ConfidenceBounded ==
    /\ (pc = "persist" /\ result.artifact # Null)
       => (ConfidenceOf(result.artifact.o) >= 0 /\ ConfidenceOf(result.artifact.o) <= 10)
    /\ \A j \in 1..Len(results) :
          results[j].result.artifact # Null =>
              /\ ConfidenceOf(results[j].result.artifact.o) \in 0..10
              /\ ConfidenceOf(files[results[j].result.artifact_path].v.o) \in 0..10
    /\ ( /\ Processed
         /\ schema # NoSchema
         /\ response.json
         /\ response.v.k = "dict"
         /\ Get(response.v, "artifact", response.v).k = "dict"
         /\ "confidence" \in DOMAIN Get(response.v, "artifact", response.v).o
         /\ ConfidenceOf(Get(response.v, "artifact", response.v).o) \notin 0..10 )
       => /\ pc = "raised"
          /\ err.cause = "schema"
          /\ err.schema = schema
          /\ STAGES[i] \notin {results[j].name : j \in 1..Len(results)}
          /\ ArtifactFilename(STAGES[i]) \notin DOMAIN files

C11_Witness ==
    /\ pc = "raised"
    /\ err.cause = "schema"
    /\ schema = "ReleaseReport"
    /\ response = Json(Payload(UnderConfident(ValidArtifact(schema)), "success", 9))

\* C12: a mediator payload the debate engine returns with a confidence below
\* 0.70 has the status 'block'.
C12_LowConfidenceBlocks ==
    ( /\ pc = "returned"
      /\ result.mediator.k = "dict"
      /\ "confidence" \in DOMAIN result.mediator.o
      /\ result.mediator.o.confidence.k = "num"
      /\ result.mediator.o.confidence.n < 7 )
    => Get(result.mediator, "status", Null) = Str("block")

\* the seven schema-typed stages and their files
SchemaFiles ==
    [plan |-> "plan.json", research |-> "research.json",
     plan_update |-> "backlog.json", threat |-> "threat.json",
     integrate |-> "integration.json", test_debug |-> "test_report.json",
     release |-> "release_report.json"]

\* C13: for every executed stage S of a run, an artifact file exists under
\* output_dir iff S is one of the seven schema-typed stages; the file holds
\* the serialization of exactly the validated artifact in results[S], and
\* results[S].artifact_path names it; code and review write no file and
\* carry no artifact_path.
C13_ArtifactFiles ==
    /\ \A j \in 1..Len(results) :
          LET S == results[j].name
              r == results[j].result
          IN IF S \in DOMAIN SchemaFiles
             THEN /\ r.artifact.k = "model"
                  /\ r.artifact_path = SchemaFiles[S]
                  /\ SchemaFiles[S] \in DOMAIN files
                  /\ files[SchemaFiles[S]] = Json(Dict(r.artifact.o))
             ELSE /\ S \in {"code", "review"}
                  /\ r.artifact = Null
                  /\ r.artifact_path = ""
    /\ DOMAIN files =
          {SchemaFiles[S] : S \in {results[j].name : j \in 1..Len(results)}
                                  \cap DOMAIN SchemaFiles}

C13_Witness ==
    /\ pc = "done"
    /\ ResultKeys = <<"review", "threat">>
    /\ DOMAIN files = {"threat.json"}

\* C14: an artifact file, once written, keeps its content, and every write
\* of an artifact, a re-run of the same stage on the same output_dir
\* included, creates a new file.
C14_FilesNeverChange ==
    /\ [][\A f \in DOMAIN files : f \in DOMAIN files' /\ files'[f] = files[f]]_vars
    /\ [][files' # files => DOMAIN files' # DOMAIN files]_vars

\* the Agent objects of the j-th stage invocation that built its agents
AgentsUsed(j) == {agentsOf[j].agents[r] : r \in DOMAIN agentsOf[j].agents}

\* C16: no Agent object used by one stage invocation is used by another
\* one, a later invocation of the same stage in the same process included.
C16_AgentsFresh ==
    \A a, b \in 1..Len(agentsOf) :
        a # b => AgentsUsed(a) \cap AgentsUsed(b) = {}

\* C15: when a run started from the tekton command line completes without
\* a stage error, diamond_summary.json is written and holds the goal and,
\* for every executed stage, its mediator payload, its artifact in JSON
\* form and its transcript, also when stages carry artifact models.
C15_SummaryWritten ==
    (entry = "tekton" /\ pc \in {"exit", "crashed"})
    => /\ pc = "exit"
       /\ summaryFile.written
       /\ summaryFile.goal = "goal"
       /\ Len(summaryFile.results) = Len(results)
       /\ \A j \in 1..Len(results) :
             /\ summaryFile.results[j].name = results[j].name
             /\ summaryFile.results[j].result.mediator = results[j].result.mediator
             /\ summaryFile.results[j].result.transcript = results[j].result.transcript
             /\ summaryFile.results[j].result.artifact.k \in {"dict", "null"}

\* the stage S is named in the caller's consensus_free, in whatever case
NamedConsensusFree(S) ==
    \/ S = "code" /\ consensus_free \cap {"code", "Code", "CODE"} # {}
    \/ S = "test_debug"
       /\ consensus_free \cap {"test_debug", "Test_Debug", "TEST_DEBUG"} # {}

\* C17: every stage function invoked receives consensus_free = true iff the
\* stage is code or test_debug and the caller's set names it, in whatever
\* case; code and test_debug receive false otherwise, and every other
\* stage is invoked without the keyword whether the set names it or not.
C17_ConsensusFreeFlag ==
    /\ Len(passed) = Len(invoked)
    /\ \A j \in 1..Len(invoked) :
          /\ passed[j] = "True" <=> NamedConsensusFree(invoked[j])
          /\ passed[j] = "False" <=>
                (invoked[j] \in {"code", "test_debug"}
                 /\ ~NamedConsensusFree(invoked[j]))
          /\ passed[j] = "absent" <=> invoked[j] \notin {"code", "test_debug"}

C17_Witness ==
    /\ pc = "exit"
    /\ consensus_free = {"TEST_DEBUG", "review"}
    /\ invoked = <<"test_debug", "release">>
    /\ passed = <<"True", "absent">>

\* C18: a PlanArtifact built from goals of at least one item, lists for
\* milestones, acceptance_criteria and risks, strings for dri and timeline
\* and the confidence 0.8 validates, with slos defaulting to the empty
\* list; its JSON text validates again to an artifact equal field for
\* field, slos the empty list again.
C18_PlanRoundTrip ==
    (kwargs.k = "dict" /\ kwargs.o.goals.n >= 1 /\ rtPc # "build")
    => /\ rtPc # "invalid"
       /\ payload.k = "model"
       /\ payload.o.slos = List(0)
       /\ payload.o.confidence = Num(8)
       /\ \A f \in DOMAIN kwargs.o : payload.o[f] = kwargs.o[f]
       /\ rtPc = "done" =>
             /\ reparsed.k = "model"
             /\ DOMAIN reparsed.o = DOMAIN payload.o
             /\ \A f \in DOMAIN payload.o : reparsed.o[f] = payload.o[f]
             /\ reparsed.o.slos = List(0)

C18_Witness ==
    /\ rtPc = "done"
    /\ kwargs.o.goals = List(1)
    /\ kwargs.o.milestones = List(2)
    /\ kwargs.o.dri = Str("Payments Team")
    /\ reparsed = payload
    /\ reparsed.o.slos = List(0)

\* C19: successive or concurrent calls of new_run_dir on one memory
\* directory never fail because of one another, and each returns a
\* directory under runs that exists and that no other call returns.
C19_RunDirsDistinct ==
    \A c \in DOMAIN callers :
        /\ callers[c].pc # "failed"
        /\ callers[c].pc = "returned" =>
              /\ callers[c].candidate \in runDirs
              /\ \A d \in DOMAIN callers \ {c} :
                    callers[d].pc = "returned" =>
                        callers[d].candidate # callers[c].candidate

\* C20: of two calls of get_active_files less than 10 minutes apart, the
\* first of which ran git successfully, the second runs no git subprocess
\* and returns the list the first returned, the empty list included.
C20_SecondCallCached ==
    \A j \in 1..(Len(answers) - 1) :
        (answers[j].git = "ok" /\ answers[j + 1].t - answers[j].t < 10)
        => /\ answers[j + 1].git = "none"
           /\ answers[j + 1].value = answers[j].value

\* C21: _get_cache(key, max_age_minutes=m) never returns a value stored
\* more than m minutes earlier, with the cache file and with Redis alike:
\* get_git_status never serves an entry older than 30 seconds.
C21_CacheNeverStale ==
    lastStatus.cached => 2 * lastStatus.age <= 1

\* C22: in every debate round after the opening each role is called with
\* the full transcript as it stands at that call, so the Skeptic's input
\* holds the Proponent's message of the same round and the Pragmatist's
\* holds both.
C22_FullTranscript ==
    context.kind = "summary"
        => context.messages = AsMessages(SubSeq(transcript, 1, context.at))

\* C23: in the opening round the three roles receive the identical input,
\* built from the rubric and the prompt of the stage only: whatever the
\* Proponent answered, the Skeptic's and the Pragmatist's opening input
\* hold no earlier message.
C23_OpeningIndependent ==
    context.kind = "opening"
        => /\ context.stage = stage
           /\ context.messages = <<>>
           /\ context.at < Len(TriadLabels)

\* the Pragmatist's opening call, made after a Proponent and a Skeptic that
\* answered differently
C23_Witness ==
    /\ context.kind = "opening"
    /\ context.at = 2
    /\ Len(transcript) = 3
    /\ transcript[1][2] = "json.dumps(message)"
    /\ transcript[2][2] = "position"

\* C24: the mediator is called exactly once, only after all 3 * (R + 1)
\* triad messages are in the transcript, with a prompt that holds every
\* transcript entry in order; its response is never appended to the
\* transcript, and it is never called when a triad call failed.
C24_MediatorOnceAtEnd ==
    /\ roleCalls["Mediator"] <= 1
    /\ Len(transcript) <= 3 * (rounds + 1)
    /\ Len(transcript) < 3 * (rounds + 1) => roleCalls["Mediator"] = 0
    /\ pc \in {"returned", "persist"} => roleCalls["Mediator"] = 1
    /\ roleCalls["Mediator"] = 1
          => /\ context.kind = "mediator"
             /\ context.at = 3 * (rounds + 1)
             /\ Len(transcript) = context.at
             /\ Len(context.messages) = Len(transcript)
             /\ \A j \in 1..Len(transcript) :
                   /\ context.messages[j].agent = transcript[j][1]
                   /\ context.messages[j].content = transcript[j][2]
                   /\ transcript[j][1] # "Mediator"

\* a debate of two rounds has returned: nine messages, one mediator call
C24_Witness ==
    /\ pc = "returned"
    /\ rounds = 2
    /\ roleCalls["Mediator"] = 1
    /\ Len(context.messages) = 9

\* C27: the engine never retries: each role is called at most once per
\* round, so at most R + 1 times in a debate, and the mediator at most
\* once; when an agent call raises, the debate raises that failure, no
\* further agent call is made and no payload is returned.
C27_NoRetry ==
    /\ [](/\ \A r \in {"Proponent", "Skeptic", "Pragmatist"} :
               roleCalls[r] <= round + 1 /\ round <= rounds
          /\ roleCalls["Mediator"] <= 1
          /\ calls = roleCalls["Proponent"] + roleCalls["Skeptic"]
                       + roleCalls["Pragmatist"] + roleCalls["Mediator"]
          /\ err.type = "AgentError"
                => pc = "raised" /\ result = NoResult /\ response = NoResponse)
    /\ [][err.type = "AgentError"
            => calls' = calls /\ roleCalls' = roleCalls /\ result' = result]_vars

\* the Skeptic's call of round 1 raised: it was called twice, the
\* Pragmatist once, the mediator never
C27_Witness ==
    /\ pc = "raised"
    /\ err.type = "AgentError"
    /\ round = 1
    /\ roleCalls["Skeptic"] = 2
    /\ roleCalls["Pragmatist"] = 1
    /\ roleCalls["Mediator"] = 0

\* C25: a stage with dependencies builds its prompt from a bounded excerpt
\* of each dependency's mediator payload and then runs the debate; this
\* succeeds whenever the dependency's result is absent or present as the
\* engine produced it, so no run fails while building a later stage's
\* prompt.
C25_PromptBuilt ==
    ~(pc = "raised" /\ err.type = "TypeError" /\ err.cause = "prompt")

\* C26: the results of a run change only when the runner adds the entry of
\* the stage whose function has just returned, after that stage's artifact
\* file is written; no stage function adds, removes or rewrites an entry,
\* entries are never removed or replaced during the run, and the goal is
\* the same value for every stage and in the returned summary.
C26_ResultsFrame ==
    /\ [][results' # results
            => /\ pc = "persist"
               /\ Len(results') = Len(results) + 1
               /\ SubSeq(results', 1, Len(results)) = results
               /\ results'[Len(results')].name = STAGES[i]
               /\ results'[Len(results')].name = invoked[Len(invoked)]
               /\ results'[Len(results')].result.mediator = result.mediator
               /\ results'[Len(results')].result.artifact = result.artifact
               /\ STAGES[i] \notin {results[j].name : j \in 1..Len(results)}
               /\ result.artifact # Null
                     => results'[Len(results')].result.artifact_path
                            \in DOMAIN files']_vars
    /\ [][goal' = goal]_vars
    /\ [](/\ Len(stageGoals) = Len(invoked)
          /\ \A j \in 1..Len(stageGoals) : stageGoals[j] = goal
          /\ pc = "done" => returned.goal = goal /\ returned.results = results)

\* a run of two stages has returned: two entries and the goal in the summary
C26_Witness ==
    /\ pc = "done"
    /\ Len(results) = 2
    /\ Len(stageGoals) = 2
    /\ returned.goal = "goal"
    /\ Len(returned.results) = 2

\* C29: the runner's progression does not depend on the mediator's
\* verdict: when a stage's payload has status block or revise, or a
\* confidence below 0.70, the runner still persists its artifact, records
\* its result and invokes the next stage; only a raised error stops the run
\* before end.
C29_VerdictIgnored ==
    /\ [][pc = "persist"
            => /\ Len(results') = Len(results) + 1
               /\ results'[Len(results')].name = STAGES[i]
               /\ result.artifact # Null
                     => results'[Len(results')].result.artifact_path
                            \in DOMAIN files'
               /\ pc' = IF STAGES[i] = end THEN "done" ELSE "loop"]_vars
    /\ [][(pc = "loop" /\ capture /\ i <= Len(STAGES))
            => invoked' = Append(invoked, STAGES[i])]_vars
    /\ [](/\ pc = "persist" => ENABLED Persist
          /\ (pc = "loop" /\ capture /\ i <= Len(STAGES)) => ENABLED InvokeStage
          /\ pc = "done"
                => \/ i > Len(STAGES)
                   \/ results # <<>> /\ results[Len(results)].name = end
          /\ pc = "raised" => err # NoError)

\* research was blocked with confidence 0.6 and plan_update still ran
C29_Witness ==
    /\ Len(results) = 2
    /\ results[1].name = "research"
    /\ results[1].result.mediator.k = "dict"
    /\ Get(results[1].result.mediator, "status", Null) = Str("block")
    /\ Get(results[1].result.mediator, "confidence", Null) = Num(6)
    /\ results[2].name = "plan_update"
    /\ "research.json" \in DOMAIN files

\* C28: the Claude adapter's HTTP call is retried on 429 and 5xx: the
\* initial request plus exactly 4 retries, with a wait of 0.5 * 2^k seconds
\* before retry k + 1 (k = 0..3), never more than 5 requests, and the
\* first non-retryable response ends the retrying at once.
C28_RetryPolicy ==
    /\ Len(outcomes) <= 5
    /\ Len(waits) <= 4
    /\ \A k \in 1..Len(waits) : waits[k] = 2 ^ (k - 1)
    /\ \A j \in 1..(Len(outcomes) - 1) :
          outcomes[j].kind = "response"
              => outcomes[j].status \in {429} \cup (500..599)
    /\ ( /\ clPc \in {"exited", "returned", "raised"}
         /\ \A j \in 1..Len(outcomes) :
               /\ outcomes[j].kind = "response"
               /\ outcomes[j].status \in {429} \cup (500..599) )
       => Len(outcomes) = 5 /\ waits = <<1, 2, 4, 8>>

\* C30: every call of the Claude adapter that got past creating its run
\* directory has appended exactly one record to events.jsonl and exactly
\* one section to session-log.md when it returns or exits, whether the HTTP
\* call succeeded, failed after the retries or returned an unreadable body.
C30_OneRecordPerRun ==
    /\ events <= 1
    /\ sessionLog <= 1
    /\ clPc \in {"exited", "returned", "raised"}
          => events = 1 /\ sessionLog = 1

====
